---- MODULE Spec2Model ----
(***************************************************************************)
(* Model of the namespace reclaim-resources saga                           *)
(* (service/worker/deletenamespace/reclaimresources/workflow.go).          *)
(*                                                                         *)
(* Durations are counted in whole seconds.  A duration string is a tuple   *)
(* of one-character strings, so that time.ParseDuration can be modelled    *)
(* character by character.                                                 *)
(***************************************************************************)
EXTENDS Integers, Sequences, FiniteSets, TLC

\* ------------------------------------------------------------------ bounds

\* Number of update_namespace_delete_delay calls delivered to one run.
MaxUpdates == 2

\* Longest duration string given to the update validator in SpecValidator.
MaxStrLen == 4

\* Number of times a worker re-executes one run from its history in SpecReplay.
MaxReplays == 2

\* Largest failover version given to NewWorkflowVersionCheck in SpecVersionCheck.
MaxVersion == 7

\* The namespace-scoped limits of SpecValidateStart, scaled down:
\* config.MaxIDLengthLimit(), config.BlobSizeLimitError(ns), config.MemoSizeLimitError(ns).
MaxIDLengthLimit == 2

BlobSizeLimitError == 4

MemoSizeLimitError == 3

\* Longest timeout, in seconds, given to the request normalizer in SpecOverride.
MaxTimeout == 3

\* Number of workflow leases constructed in SpecLease.
MaxLeases == 3

\* Number of mutable states the callers of SpecLease hold.
NumMutableStates == 2

\* ------------------------------------------------------- program constants

\* namespaceCacheRefreshDelay = 11 * time.Second
namespaceCacheRefreshDelay == 11

\* workflow.DefaultVersion
DefaultVersion == -1

\* 30*24*time.Hour, the validator's upper limit
MaxNamespaceDeleteDelay == 30 * 24 * 3600

\* ------------------------------------------------------------------ errors

Nil == [kind |-> "nil"]

IsError(e) == e # Nil

\* temporal.NewNonRetryableApplicationError(msg, type, cause)
NewNonRetryableApplicationError(msg, type) ==
    [kind |-> "app", msg |-> msg, type |-> type, nonRetryable |-> TRUE,
     hasDetails |-> FALSE, details |-> 0]

\* temporal.NewApplicationError(msg, type, details...)
NewApplicationError(msg, type, detail) ==
    [kind |-> "app", msg |-> msg, type |-> type, nonRetryable |-> FALSE,
     hasDetails |-> TRUE, details |-> detail]

\* fmt.Errorf("%w: <op>: %v", sentinel, err)
Wrap(sentinel, op, e) ==
    [kind |-> "wrapped", sentinel |-> sentinel, op |-> op, cause |-> e]

ValidationErrorErrType == "ValidationError"
ExecutionsStillExistErrType == "ExecutionsStillExist"
NoProgressErrType == "NoProgress"
NotDeletedExecutionsStillExistErrType == "NotDeletedExecutionsStillExist"

\* -------------------------------------------------------- time.ParseDuration

Digits == {"0", "1", "2", "3", "4", "5", "6", "7", "8", "9"}

DigitVal(c) == CHOOSE n \in 0..9 : ToString(n) = c

\* unitMap of package time, restricted to the units that are whole seconds
UnitKnown(u) == u \in {<<"s">>, <<"m">>, <<"h">>}

UnitSeconds(u) ==
    CASE u = <<"s">> -> 1
      [] u = <<"m">> -> 60
      [] u = <<"h">> -> 3600

Drop(s, n) == SubSeq(s, n + 1, Len(s))

\* number of leading characters of s that are digits
RECURSIVE LeadingDigits(_)
LeadingDigits(s) ==
    IF s # <<>> /\ Head(s) \in Digits THEN 1 + LeadingDigits(Tail(s)) ELSE 0

\* number of leading characters of s that are not digits (the unit)
RECURSIVE LeadingUnit(_)
LeadingUnit(s) ==
    IF s # <<>> /\ Head(s) \notin Digits THEN 1 + LeadingUnit(Tail(s)) ELSE 0

\* leadingInt: value of a string of digits
RECURSIVE DigitsValue(_)
DigitsValue(s) ==
    IF s = <<>> THEN 0
    ELSE 10 * DigitsValue(SubSeq(s, 1, Len(s) - 1)) + DigitVal(s[Len(s)])

ParseFail == [ok |-> FALSE, d |-> 0]

\* the loop of time.ParseDuration over ([0-9]+[a-z]+)+, d accumulated so far
RECURSIVE ParseTerms(_, _)
ParseTerms(s, d) ==
    IF s = <<>> THEN [ok |-> TRUE, d |-> d]
    ELSE LET n    == LeadingDigits(s)
             rest == Drop(s, n)
             i    == LeadingUnit(rest)
             u    == SubSeq(rest, 1, i)
         IN  IF n = 0 THEN ParseFail          \* invalid duration
             ELSE IF i = 0 THEN ParseFail     \* missing unit
             ELSE IF ~UnitKnown(u) THEN ParseFail
             ELSE ParseTerms(Drop(rest, i),
                             d + DigitsValue(SubSeq(s, 1, n)) * UnitSeconds(u))

\* time.ParseDuration(s): [ok, d]; ok = FALSE stands for a non-nil error
ParseDuration(s) ==
    LET signed == s # <<>> /\ Head(s) \in {"-", "+"}
        neg    == s # <<>> /\ Head(s) = "-"
        body   == IF signed THEN Tail(s) ELSE s
    IN  IF body = <<"0">> THEN [ok |-> TRUE, d |-> 0]
        ELSE IF body = <<>> THEN ParseFail
        ELSE LET r == ParseTerms(body, 0)
             IN  IF ~r.ok THEN ParseFail
                 ELSE [ok |-> TRUE, d |-> IF neg THEN 0 - r.d ELSE r.d]

\* Duration.String() of a whole number of seconds
DurationString(d) ==
    LET a == IF d < 0 THEN 0 - d ELSE d
        h == a \div 3600
        m == (a % 3600) \div 60
        s == a % 60
        sign == IF d < 0 THEN "-" ELSE ""
    IN  IF a = 0 THEN "0s"
        ELSE IF h > 0
             THEN sign \o ToString(h) \o "h" \o ToString(m) \o "m" \o ToString(s) \o "s"
        ELSE IF m > 0
             THEN sign \o ToString(m) \o "m" \o ToString(s) \o "s"
        ELSE sign \o ToString(s) \o "s"

\* ------------------------------------------------------------ update validator

\* the validator with the lower limit taken inclusive
ValidatorInclusiveLowerBound(s) ==
    LET r == ParseDuration(s)
    IN  IF s = <<>>
        THEN NewNonRetryableApplicationError("delay duration is required", ValidationErrorErrType)
        ELSE IF ~r.ok
        THEN NewNonRetryableApplicationError("unable to parse delay duration", ValidationErrorErrType)
        ELSE IF r.d <= 0
        THEN NewNonRetryableApplicationError("delay duration must be positive", ValidationErrorErrType)
        ELSE IF r.d > MaxNamespaceDeleteDelay
        THEN NewNonRetryableApplicationError("delay duration must be less than 30 days", ValidationErrorErrType)
        ELSE Nil

\* UpdateHandlerOptions.Validator
Validator(s) ==
    LET r == ParseDuration(s)
    IN  IF s = <<>>
        THEN NewNonRetryableApplicationError("delay duration is required", ValidationErrorErrType)
        ELSE IF ~r.ok
        THEN NewNonRetryableApplicationError("unable to parse delay duration", ValidationErrorErrType)
        ELSE IF r.d < 0
        THEN NewNonRetryableApplicationError("delay duration must be positive", ValidationErrorErrType)
        ELSE IF r.d > MaxNamespaceDeleteDelay
        THEN NewNonRetryableApplicationError("delay duration must be less than 30 days", ValidationErrorErrType)
        ELSE Nil

\* ------------------------------------------------------------------- state

VARIABLES
    params,                \* ReclaimResourcesParams: NamespaceID, Namespace, NamespaceDeleteDelay
    v,                     \* what workflow.GetVersion(ctx, "remove-std-vis", ...) returned, Unset before
    pc,                    \* where the main sequence is suspended
    result,                \* ReclaimResourcesResult
    err,                   \* the error the workflow returned (Nil while running)
    namespaceDeleteDelay,  \* closure variable shared with the update handler
    cancelDeleteDelay,     \* 0 = nil, else the index in timers of the wait its context belongs to
    timers,                \* the delay waits armed so far, in order, each with its state
    calls,                 \* the activities, child workflows and settle timer started so far
    dwe,                   \* progress of the call of deleteWorkflowExecutions
    executionsCount,       \* what CountExecutionsAdvVisibilityActivity reported, NotCounted before
    der,                   \* what the DeleteExecutions child workflow reported
    deleteNsOutcome,       \* what DeleteNamespaceActivity returned, Pending before
    ensureErr,             \* what EnsureNoExecutionsAdvVisibilityActivity reported
    lastUpdate,            \* the most recent update call and its reply
    lastAccepted,          \* the most recent update the validator accepted
    nUpdates,              \* number of update calls delivered
    accepted,              \* the updates accepted so far, in order, each with where it found the run
    rootCancel,            \* whether the caller has cancelled the run, and where the run stood then
    settleTimer,           \* the timer of workflow.Sleep(ctx, namespaceCacheRefreshDelay)
    preRevision,           \* the run's history up to the version gate was written before "remove-std-vis"
    marker,                \* the version marker "remove-std-vis" recorded in the history, Unset if none
    replayV,               \* what GetVersion returned in the most recent replay, Unset if none
    replayCalls,           \* the commands the most recent replay issued
    nReplays,              \* number of replays so far
    apiIn,                 \* arguments of the call of a function of create_workflow_util.go
    apiOut,                \* what that call returned, Idle before
    leases,                \* the workflow leases constructed so far
    vIn,                   \* SpecValidator: the string given to the validator
    vOut                   \* SpecValidator: what the validator returned

replayVars == <<replayV, replayCalls, nReplays>>

apiVars == <<apiIn, apiOut, leases>>

vars == <<params, v, pc, result, err, namespaceDeleteDelay, cancelDeleteDelay,
          timers, calls, dwe, executionsCount, der, deleteNsOutcome, ensureErr,
          lastUpdate, lastAccepted, nUpdates, settleTimer, preRevision, marker,
          replayVars, apiVars, accepted, rootCancel, vIn, vOut>>

sagaVars == <<params, v, pc, result, err, namespaceDeleteDelay, cancelDeleteDelay,
              timers, calls, dwe, executionsCount, der, deleteNsOutcome, ensureErr,
              lastUpdate, lastAccepted, nUpdates, settleTimer, preRevision, marker,
              replayVars, accepted, rootCancel>>

\* var result ReclaimResourcesResult
ZeroResult == [DeleteSuccessCount |-> 0, DeleteErrorCount |-> 0, NamespaceDeleted |-> FALSE]

NoDer == [reported |-> FALSE, SuccessCount |-> 0, ErrorCount |-> 0]

NoUpdate == [called |-> FALSE]

\* DeleteNamespaceActivity has not returned
Pending == [kind |-> "pending"]

\* CountExecutionsAdvVisibilityActivity has not returned a count
NotCounted == 0 - 1

\* no version returned or recorded yet
Unset == 0 - 2

\* workflow.Sleep(ctx, namespaceCacheRefreshDelay) not yet called
NoTimer == [d |-> 0, state |-> "none"]

\* the caller has not cancelled the run
NotCancelled == [requested |-> FALSE]

\* the validator has not been run
Idle == [kind |-> "idle"]

\* ------------------------------------------------------------------ inputs

ParamsSet ==
    [NamespaceID : {"", "ns-id"}, Namespace : {"", "acme"}, NamespaceDeleteDelay : {0, 3600}]

\* errors.ErrUnableTo... sentinels wrap these failures of the SDK calls
CanceledError == [kind |-> "canceled"]
TimeoutError  == [kind |-> "timeout"]

\* outcomes of CountExecutionsAdvVisibilityActivity
CountOutcomes == {0, 5}

\* outcomes of the DeleteExecutions child workflow
DerOutcomes ==
    { [reported |-> TRUE, SuccessCount |-> 5, ErrorCount |-> 0],
      [reported |-> TRUE, SuccessCount |-> 3, ErrorCount |-> 2] }

\* an ApplicationError as an activity reports it
ActivityAppError(type, hasDetails, n) ==
    [kind |-> "app", msg |-> type \o " message", type |-> type, nonRetryable |-> TRUE,
     hasDetails |-> hasDetails, details |-> IF hasDetails THEN n ELSE 0]

\* failures of EnsureNoExecutionsAdvVisibilityActivity
EnsureErrors ==
    { ActivityAppError(t, hd, 2) :
        t \in {ExecutionsStillExistErrType, NoProgressErrType,
               NotDeletedExecutionsStillExistErrType, "SomeOtherType"},
        hd \in BOOLEAN }
    \cup {TimeoutError}

\* strings sent as update_namespace_delete_delay
UpdateInputs ==
    { <<>>, <<"h">>, <<"-", "1", "h">>, <<"0">>, <<"2", "s">>, <<"2", "h">>,
      <<"7", "2", "1", "h">> }

\* ------------------------------------------------------------------- Init

SagaInit ==
    /\ params \in ParamsSet
    /\ v = Unset
    /\ preRevision \in BOOLEAN
    /\ marker = Unset
    /\ settleTimer = NoTimer
    /\ replayV = Unset
    /\ replayCalls = <<>>
    /\ nReplays = 0
    /\ pc = "init"
    /\ result = ZeroResult
    /\ err = Nil
    /\ namespaceDeleteDelay = params.NamespaceDeleteDelay
    /\ cancelDeleteDelay = 0
    /\ timers = <<>>
    /\ calls = <<>>
    /\ dwe = "notcalled"
    /\ executionsCount = NotCounted
    /\ der = NoDer
    /\ deleteNsOutcome = Pending
    /\ ensureErr = Nil
    /\ lastUpdate = NoUpdate
    /\ lastAccepted = NoUpdate
    /\ nUpdates = 0
    /\ accepted = <<>>
    /\ rootCancel = NotCancelled

\* the saga left unstarted, in the specifications of the other functions
SagaParked ==
    /\ params = [NamespaceID |-> "ns-id", Namespace |-> "acme", NamespaceDeleteDelay |-> 0]
    /\ v = Unset
    /\ preRevision = FALSE
    /\ marker = Unset
    /\ settleTimer = NoTimer
    /\ replayV = Unset
    /\ replayCalls = <<>>
    /\ nReplays = 0
    /\ pc = "init"
    /\ result = ZeroResult
    /\ err = Nil
    /\ namespaceDeleteDelay = 0
    /\ cancelDeleteDelay = 0
    /\ timers = <<>>
    /\ calls = <<>>
    /\ dwe = "notcalled"
    /\ executionsCount = NotCounted
    /\ der = NoDer
    /\ deleteNsOutcome = Pending
    /\ ensureErr = Nil
    /\ lastUpdate = NoUpdate
    /\ lastAccepted = NoUpdate
    /\ nUpdates = 0
    /\ accepted = <<>>
    /\ rootCancel = NotCancelled

\* the update validator not run on its own
ValidatorParked ==
    /\ vIn = <<>>
    /\ vOut = Idle

\* no function of create_workflow_util.go called
ApiParked ==
    /\ apiIn = Idle
    /\ apiOut = Idle
    /\ leases = <<>>

Init ==
    /\ SagaInit
    /\ ValidatorParked
    /\ ApiParked

\* ------------------------------------------------------------ main sequence

validateParams(p) ==
    IF p.NamespaceID = ""
    THEN NewNonRetryableApplicationError("namespace ID is required", "")
    ELSE IF p.Namespace = ""
    THEN NewNonRetryableApplicationError("namespace is required", "")
    ELSE Nil

\* return result, err
Return(res, e) ==
    /\ pc' = "returned"
    /\ result' = res
    /\ err' = e

Invoke(name) == calls' = Append(calls, name)

\* a loop that also waits for a delay of zero
DelayLoopConditionNonNegative(d) == d >= 0

\* for namespaceDeleteDelay > 0
DelayLoopCondition(d) == d > 0

\* the delay value kept across the wait and the record of the previous wait
\* used again
DelayLoopDelayKept(res, d) ==
    IF DelayLoopCondition(d)
    THEN /\ timers' = IF Len(timers) = 0
                      THEN <<[d |-> d, state |-> "armed", zeroed |-> FALSE]>>
                      ELSE [timers EXCEPT ![Len(timers)] =
                               [d |-> d, state |-> "armed", zeroed |-> FALSE]]
         /\ cancelDeleteDelay' = Len(timers')
         /\ namespaceDeleteDelay' = d
         /\ pc' = "delayWait"
         /\ result' = res
         /\ UNCHANGED <<err, calls>>
    ELSE /\ Invoke("DeleteNamespaceActivity")
         /\ pc' = "deleteNs"
         /\ result' = res
         /\ UNCHANGED <<err, timers, cancelDeleteDelay, namespaceDeleteDelay>>

\* Step 2 and the start of step 3, entered with the delay value d as the main
\* sequence sees it when it resumes: one more wait, or DeleteNamespaceActivity.
DelayLoop(res, d) ==
    IF DelayLoopCondition(d)
    THEN /\ timers' = Append(timers, [d |-> d,
                                      state |-> IF rootCancel.requested
                                                THEN "cancelled" ELSE "armed",
                                      zeroed |-> FALSE])
         /\ cancelDeleteDelay' = Len(timers) + 1
         /\ namespaceDeleteDelay' = 0
         /\ pc' = "delayWait"
         /\ result' = res
         /\ UNCHANGED <<err, calls>>
    ELSE /\ Invoke("DeleteNamespaceActivity")
         /\ pc' = "deleteNs"
         /\ result' = res
         /\ UNCHANGED <<err, timers, cancelDeleteDelay, namespaceDeleteDelay>>

\* the check of the error of deleteWorkflowExecutions left out
DeleteExecutionsFailedIgnored(e) == FALSE

\* if err != nil, after result, err = deleteWorkflowExecutions(...)
DeleteExecutionsFailed(e) == IsError(e)

\* deleteWorkflowExecutions returns (res, e) to ReclaimResourcesWorkflow
AfterDeleteWorkflowExecutions(res, e) ==
    IF DeleteExecutionsFailed(e)
    THEN /\ Return(res, e)
         /\ dwe' = IF IsError(e) THEN "failed" ELSE "ok"
         /\ UNCHANGED <<timers, cancelDeleteDelay, namespaceDeleteDelay, calls>>
    ELSE /\ DelayLoop(res, namespaceDeleteDelay)
         /\ dwe' = IF IsError(e) THEN "failed" ELSE "ok"

\* ReclaimResourcesWorkflow up to workflow.Sleep(ctx, namespaceCacheRefreshDelay)
Start ==
    /\ pc = "init"
    /\ IF IsError(validateParams(params))
       THEN /\ Return(result, validateParams(params))
            /\ UNCHANGED <<calls, settleTimer>>
       ELSE /\ Invoke("Sleep")
            /\ settleTimer' = [d |-> namespaceCacheRefreshDelay, state |-> "armed"]
            /\ pc' = "cacheSettle"
            /\ UNCHANGED <<result, err>>
    /\ UNCHANGED <<params, v, preRevision, marker, replayVars, apiVars, accepted, rootCancel, executionsCount, deleteNsOutcome, namespaceDeleteDelay, cancelDeleteDelay, timers, dwe,
                   der, ensureErr, lastUpdate, lastAccepted, nUpdates, vIn, vOut>>

GetVersionRederived(mk, replaying, minSupported, maxSupported) ==
    IF replaying THEN DefaultVersion ELSE maxSupported

\* workflow.GetVersion(ctx, changeID, minSupported, maxSupported) of the SDK: the
\* version the history records for changeID if it records one; else DefaultVersion
\* when the code is replaying history written without the marker, and
\* maxSupported (which is then recorded) when it runs this point for the first time
GetVersion(mk, replaying, minSupported, maxSupported) ==
    IF mk # Unset THEN mk
    ELSE IF replaying THEN DefaultVersion
    ELSE maxSupported

\* the marker in the history once GetVersion has returned
MarkerAfterGetVersion(mk, replaying, maxSupported) ==
    IF mk = Unset /\ ~replaying THEN maxSupported ELSE mk

ProbeNeededForNewRuns(ver) == ver # DefaultVersion

\* if v == workflow.DefaultVersion
ProbeNeeded(ver) == ver = DefaultVersion

\* the settle timer ends; deleteWorkflowExecutions runs to its first activity
CacheSettleDone(e) ==
    /\ pc = "cacheSettle"
    /\ IF IsError(e)
       THEN /\ Return(result, e)
            /\ settleTimer' = [settleTimer EXCEPT !.state = "cancelled"]
            /\ UNCHANGED <<calls, dwe, v, marker>>
       ELSE /\ settleTimer' = [settleTimer EXCEPT !.state = "fired"]
            /\ dwe' = "running"
            /\ v' = GetVersion(marker, preRevision, DefaultVersion, 0)
            /\ marker' = MarkerAfterGetVersion(marker, preRevision, 0)
            /\ IF ProbeNeeded(v')
               THEN /\ Invoke("IsAdvancedVisibilityActivity")
                    /\ pc' = "isAdvVis"
               ELSE /\ Invoke("CountExecutionsAdvVisibilityActivity")
                    /\ pc' = "count"
            /\ UNCHANGED <<result, err>>
    /\ UNCHANGED <<params, preRevision, replayVars, apiVars, accepted, rootCancel, executionsCount, deleteNsOutcome,
                   namespaceDeleteDelay, cancelDeleteDelay, timers,
                   der, ensureErr, lastUpdate, lastAccepted, nUpdates, vIn, vOut>>

IsAdvancedVisibilityDone(e) ==
    /\ pc = "isAdvVis"
    /\ IF IsError(e)
       THEN /\ AfterDeleteWorkflowExecutions(
                   ZeroResult,
                   Wrap("ErrUnableToExecuteActivity", "IsAdvancedVisibilityActivity", e))
       ELSE /\ Invoke("CountExecutionsAdvVisibilityActivity")
            /\ pc' = "count"
            /\ UNCHANGED <<result, err, dwe, timers, cancelDeleteDelay, namespaceDeleteDelay>>
    /\ UNCHANGED <<params, v, settleTimer, preRevision, marker, replayVars, apiVars, accepted, rootCancel, executionsCount, deleteNsOutcome, der, ensureErr, lastUpdate, lastAccepted, nUpdates, vIn, vOut>>

\* the zero test written as a sign test
NothingToDeleteNegative(n) == n < 0

\* if executionsCount == 0
NothingToDelete(n) == n = 0

CountExecutionsDone(n, e) ==
    /\ pc = "count"
    /\ IF IsError(e)
       THEN AfterDeleteWorkflowExecutions(
                ZeroResult,
                Wrap("ErrUnableToExecuteActivity", "CountExecutionsAdvVisibilityActivity", e))
       ELSE IF NothingToDelete(n)
       THEN AfterDeleteWorkflowExecutions(ZeroResult, Nil)
       ELSE /\ Invoke("DeleteExecutionsWorkflow")
            /\ pc' = "child"
            /\ UNCHANGED <<result, err, dwe, timers, cancelDeleteDelay, namespaceDeleteDelay>>
    /\ executionsCount' = IF IsError(e) THEN executionsCount ELSE n
    /\ UNCHANGED <<params, v, settleTimer, preRevision, marker, replayVars, apiVars, accepted, rootCancel, deleteNsOutcome, der, ensureErr, lastUpdate, lastAccepted,
                   nUpdates, vIn, vOut>>

\* the two counts assigned crosswise
WithCountsSwapped(res, d) ==
    [res EXCEPT !.DeleteSuccessCount = d.ErrorCount, !.DeleteErrorCount = d.SuccessCount]

\* result.DeleteSuccessCount = der.SuccessCount; result.DeleteErrorCount = der.ErrorCount
WithCounts(res, d) ==
    [res EXCEPT !.DeleteSuccessCount = d.SuccessCount, !.DeleteErrorCount = d.ErrorCount]

DeleteExecutionsDone(d, e) ==
    /\ pc = "child"
    /\ IF IsError(e)
       THEN /\ AfterDeleteWorkflowExecutions(
                   ZeroResult,
                   Wrap("ErrUnableToExecuteChildWorkflow", "DeleteExecutionsWorkflow", e))
            /\ UNCHANGED der
       ELSE /\ der' = d
            /\ result' = WithCounts(ZeroResult, d)
            /\ Invoke("EnsureNoExecutionsAdvVisibilityActivity")
            /\ pc' = "ensure"
            /\ UNCHANGED <<err, dwe, timers, cancelDeleteDelay, namespaceDeleteDelay>>
    /\ UNCHANGED <<params, v, settleTimer, preRevision, marker, replayVars, apiVars, accepted, rootCancel, executionsCount, deleteNsOutcome, ensureErr, lastUpdate, lastAccepted, nUpdates, vIn, vOut>>

\* the conversion with the last error type missing from the case list
ConvertEnsureErrorTwoTypes(e) ==
    IF /\ e.kind = "app"
       /\ e.type \in {ExecutionsStillExistErrType, NoProgressErrType}
    THEN NewApplicationError(e.msg, e.type, IF e.hasDetails THEN e.details ELSE 0)
    ELSE Wrap("ErrUnableToExecuteActivity", "EnsureNoExecutionsActivity", e)

\* the error deleteWorkflowExecutions returns when the ensure activity fails with e
ConvertEnsureError(e) ==
    IF /\ e.kind = "app"
       /\ e.type \in {ExecutionsStillExistErrType, NoProgressErrType,
                      NotDeletedExecutionsStillExistErrType}
    THEN NewApplicationError(e.msg, e.type, IF e.hasDetails THEN e.details ELSE 0)
    ELSE Wrap("ErrUnableToExecuteActivity", "EnsureNoExecutionsActivity", e)

EnsureNoExecutionsDone(e) ==
    /\ pc = "ensure"
    /\ ensureErr' = e
    /\ IF IsError(e)
       THEN AfterDeleteWorkflowExecutions(result, ConvertEnsureError(e))
       ELSE AfterDeleteWorkflowExecutions(result, Nil)
    /\ UNCHANGED <<params, v, settleTimer, preRevision, marker, replayVars, apiVars, accepted, rootCancel, executionsCount, deleteNsOutcome, der, lastUpdate, lastAccepted, nUpdates, vIn, vOut>>

\* the timer of the outstanding delay wait fires
DelayTimerFired ==
    /\ pc = "delayWait"
    /\ timers[Len(timers)].state = "armed"
    /\ timers' = [timers EXCEPT ![Len(timers)].state = "fired"]
    /\ UNCHANGED <<params, v, settleTimer, preRevision, marker, replayVars, apiVars, accepted, rootCancel, executionsCount, deleteNsOutcome, pc, result, err, namespaceDeleteDelay, cancelDeleteDelay,
                   calls, dwe, der, ensureErr, lastUpdate, lastAccepted, nUpdates,
                   vIn, vOut>>

\* what workflow.Sleep(cancelableCtx, ndd) returns for a wait that has ended
SleepResult(timer) ==
    IF timer.state = "cancelled" THEN CanceledError ELSE Nil

\* the error of the wait checked like the error of the settle wait
DelayWaitFailedChecked(e) == IsError(e)

\* _ = workflow.Sleep(cancelableCtx, ndd): the error is dropped
DelayWaitFailed(e) == FALSE

\* workflow.Sleep(cancelableCtx, ndd) returns and the loop condition is
\* evaluated again
DelayResume ==
    /\ pc = "delayWait"
    /\ timers[Len(timers)].state # "armed"
    /\ IF DelayWaitFailed(SleepResult(timers[Len(timers)]))
       THEN /\ Return(result, SleepResult(timers[Len(timers)]))
            /\ UNCHANGED <<timers, cancelDeleteDelay, namespaceDeleteDelay, calls>>
       ELSE DelayLoop(result, namespaceDeleteDelay)
    /\ UNCHANGED <<params, v, settleTimer, preRevision, marker, replayVars, apiVars, accepted, rootCancel, executionsCount, deleteNsOutcome, dwe, der, ensureErr, lastUpdate, lastAccepted, nUpdates,
                   vIn, vOut>>

\* the flag left unset
MarkNamespaceDeletedForgotten(res) == res

\* result.NamespaceDeleted = true
MarkNamespaceDeleted(res) == [res EXCEPT !.NamespaceDeleted = TRUE]

DeleteNamespaceDone(e) ==
    /\ pc = "deleteNs"
    /\ IF IsError(e)
       THEN Return(result, Wrap("ErrUnableToExecuteActivity", "DeleteNamespaceActivity", e))
       ELSE Return(MarkNamespaceDeleted(result), Nil)
    /\ deleteNsOutcome' = e
    /\ UNCHANGED <<params, v, settleTimer, preRevision, marker, replayVars, apiVars, accepted, rootCancel, executionsCount, namespaceDeleteDelay, cancelDeleteDelay, timers, calls,
                   dwe, der, ensureErr, lastUpdate, lastAccepted, nUpdates, vIn, vOut>>

\* ------------------------------------------------------------ update handler

\* where the main sequence is suspended with the update handler registered
Suspended == {"cacheSettle", "isAdvVis", "count", "child", "ensure", "delayWait", "deleteNs"}

\* a delay wait is armed and has neither elapsed nor been cancelled
WaitOutstanding == pc = "delayWait" /\ timers[Len(timers)].state = "armed"

\* a handler that only ever shortens the delay
HandlerDelayOnlyShorten(s, old) ==
    IF ParseDuration(s).d < old THEN ParseDuration(s).d ELSE old

\* namespaceDeleteDelay, _ = time.ParseDuration(newNamespaceDeleteDelayStr)
HandlerDelay(s, old) == ParseDuration(s).d

\* a cancellation that marks the wait cancelled whatever its state
CancelTimerAlways(ts, i) == [ts EXCEPT ![i].state = "cancelled"]

\* a cancellation that does nothing
CancelTimerNoop(ts, i) == ts

\* cancelDeleteDelay(): cancels the context of wait i; a wait that has ended stays as it ended
CancelTimer(ts, i) ==
    IF ts[i].state = "armed" THEN [ts EXCEPT ![i].state = "cancelled"] ELSE ts

CancelledPrefix == "Existing namespace delete delay timer is cancelled. "

\* updateResult before the cancellation is looked at
BaseUpdateResult(d) ==
    IF d = 0
    THEN "Namespace delete delay is removed."
    ELSE "Namespace delete delay is updated to " \o DurationString(d) \o "."

\* the string the handler returns; cancelFn is cancelDeleteDelay as the handler finds it
UpdateResult(d, cancelFn) ==
    IF cancelFn # 0
    THEN CancelledPrefix \o BaseUpdateResult(d)
    ELSE BaseUpdateResult(d)

\* one update_namespace_delete_delay call: the validator, then, if it accepts, the handler
Update(s) ==
    /\ pc \in Suspended
    /\ nUpdates < MaxUpdates
    /\ nUpdates' = nUpdates + 1
    /\ IF IsError(Validator(s))
       THEN /\ lastUpdate' = [called |-> TRUE, input |-> s, accepted |-> FALSE,
                              err |-> Validator(s), reply |-> "",
                              outstanding |-> WaitOutstanding]
            /\ UNCHANGED <<namespaceDeleteDelay, timers, lastAccepted, accepted>>
       ELSE LET d == HandlerDelay(s, namespaceDeleteDelay)
                cancelled == IF cancelDeleteDelay # 0
                             THEN CancelTimer(timers, cancelDeleteDelay)
                             ELSE timers
            IN  /\ namespaceDeleteDelay' = d
                /\ timers' = IF WaitOutstanding /\ ParseDuration(s).d = 0
                             THEN [cancelled EXCEPT ![Len(timers)].zeroed = TRUE]
                             ELSE cancelled
                /\ lastUpdate' = [called |-> TRUE, input |-> s, accepted |-> TRUE,
                                  err |-> Nil,
                                  reply |-> UpdateResult(d, cancelDeleteDelay),
                                  outstanding |-> WaitOutstanding]
                /\ lastAccepted' = [called |-> TRUE, input |-> s,
                                    outstanding |-> WaitOutstanding,
                                    wait |-> Len(timers)]
                /\ accepted' = Append(accepted, [d |-> d,
                                                 outstanding |-> WaitOutstanding,
                                                 beforeResume |-> pc = "delayWait",
                                                 wait |-> Len(timers)])
    /\ UNCHANGED <<params, v, settleTimer, preRevision, marker, replayVars, apiVars, rootCancel, executionsCount, deleteNsOutcome, pc, result, err, cancelDeleteDelay, calls, dwe, der,
                   ensureErr, vIn, vOut>>

\* ------------------------------------------------------------ specification

ActivityErrors == {CanceledError, TimeoutError}

Next ==
    \/ Start
    \/ \E e \in {Nil, CanceledError} : CacheSettleDone(e)
    \/ \E e \in {Nil} \cup ActivityErrors : IsAdvancedVisibilityDone(e)
    \/ \E n \in CountOutcomes : CountExecutionsDone(n, Nil)
    \/ \E e \in ActivityErrors : CountExecutionsDone(0, e)
    \/ \E d \in DerOutcomes : DeleteExecutionsDone(d, Nil)
    \/ \E e \in ActivityErrors : DeleteExecutionsDone(NoDer, e)
    \/ \E e \in {Nil} \cup EnsureErrors : EnsureNoExecutionsDone(e)
    \/ DelayTimerFired
    \/ DelayResume
    \/ \E e \in {Nil} \cup ActivityErrors : DeleteNamespaceDone(e)
    \/ \E s \in UpdateInputs : Update(s)

Spec == Init /\ [][Next]_vars

\* ------------------------------------------------------------ cancellation

\* the caller cancels the run: the root context is cancelled and with it the
\* context of a delay wait that is outstanding; calls that are pending or
\* made later return as Next lets them, CanceledError included
CancelWorkflow ==
    /\ pc \in Suspended
    /\ ~rootCancel.requested
    /\ rootCancel' = [requested |-> TRUE, at |-> pc,
                      outstanding |-> WaitOutstanding, wait |-> Len(timers)]
    /\ timers' = IF WaitOutstanding
                 THEN [timers EXCEPT ![Len(timers)].state = "cancelled"]
                 ELSE timers
    /\ UNCHANGED <<params, v, pc, result, err, namespaceDeleteDelay, cancelDeleteDelay,
                   calls, dwe, executionsCount, der, deleteNsOutcome, ensureErr,
                   lastUpdate, lastAccepted, nUpdates, settleTimer, preRevision, marker,
                   replayVars, apiVars, accepted, vIn, vOut>>

CancelNext == Next \/ CancelWorkflow

SpecCancel == Init /\ [][CancelNext]_vars

\* ------------------------------------------------------------------- replay

\* the commands the workflow code issues when it is re-executed against the
\* recorded history up to where the run stands, GetVersion having returned ver
ReplayedCalls(ver) ==
    LET probe == "IsAdvancedVisibilityActivity"
        rest  == SelectSeq(calls, LAMBDA c : c \notin {"Sleep", probe})
    IN  <<"Sleep">> \o (IF ProbeNeeded(ver) THEN <<probe>> ELSE <<>>) \o rest

\* a worker without the run in its cache re-executes it from the history
Replay ==
    /\ pc \in Suspended
    /\ dwe # "notcalled"
    /\ nReplays < MaxReplays
    /\ nReplays' = nReplays + 1
    /\ replayV' = GetVersion(marker, TRUE, DefaultVersion, 0)
    /\ replayCalls' = ReplayedCalls(replayV')
    /\ UNCHANGED <<params, v, pc, result, err, namespaceDeleteDelay, cancelDeleteDelay,
                   timers, calls, dwe, executionsCount, der, deleteNsOutcome, ensureErr,
                   lastUpdate, lastAccepted, nUpdates, settleTimer, preRevision, marker,
                   apiVars, accepted, rootCancel, vIn, vOut>>

\* the main sequence without updates
MainNext ==
    \/ Start
    \/ \E e \in {Nil, CanceledError} : CacheSettleDone(e)
    \/ \E e \in {Nil} \cup ActivityErrors : IsAdvancedVisibilityDone(e)
    \/ \E n \in CountOutcomes : CountExecutionsDone(n, Nil)
    \/ \E e \in ActivityErrors : CountExecutionsDone(0, e)
    \/ \E d \in DerOutcomes : DeleteExecutionsDone(d, Nil)
    \/ \E e \in ActivityErrors : DeleteExecutionsDone(NoDer, e)
    \/ \E e \in {Nil} \cup EnsureErrors : EnsureNoExecutionsDone(e)
    \/ DelayTimerFired
    \/ DelayResume
    \/ \E e \in {Nil} \cup ActivityErrors : DeleteNamespaceDone(e)

ReplayNext == MainNext \/ Replay

\* every timer fires, every activity and child workflow call returns, and the
\* main sequence is resumed whenever it can go on; updates are few (MaxUpdates)
Fairness == WF_vars(MainNext)

LiveSpec == Init /\ [][Next]_vars /\ Fairness

SpecReplay == Init /\ [][ReplayNext]_vars

\* ------------------------------------------- the update validator on its own

\* the characters duration strings are built from
Alphabet == {"-", "0", "1", "2", "7", "h", "s"}

\* every string over Alphabet of at most MaxStrLen characters
Strings == UNION { [1..n -> Alphabet] : n \in 0..MaxStrLen }

ValidatorInit ==
    /\ vIn \in Strings
    /\ vOut = Idle
    /\ SagaParked
    /\ ApiParked

\* the SDK runs the validator on the string an update carries
Validate ==
    /\ vOut = Idle
    /\ vOut' = Validator(vIn)
    /\ UNCHANGED <<vIn, sagaVars, apiVars>>

ValidatorNext == Validate

SpecValidator == ValidatorInit /\ [][ValidatorNext]_vars

\* ------------------------------------------------- NewWorkflowVersionCheck

\* common.EmptyVersion
EmptyVersion == 0

Versions == (0 - 1)..MaxVersion

\* serviceerror.NewNamespaceNotActive(namespace, currentCluster, activeCluster):
\* the active cluster is the one that owns prevLastWriteVersion
NewNamespaceNotActive(prevLastWriteVersion) ==
    [kind |-> "NamespaceNotActive", activeClusterOf |-> prevLastWriteVersion]

NewWorkflowVersionCheckNotOlder(prevLastWriteVersion, currentVersion) ==
    IF prevLastWriteVersion = EmptyVersion
    THEN Nil
    ELSE IF prevLastWriteVersion >= currentVersion
         THEN NewNamespaceNotActive(prevLastWriteVersion)
         ELSE Nil

\* currentVersion is newMutableState.GetCurrentVersion()
NewWorkflowVersionCheck(prevLastWriteVersion, currentVersion) ==
    IF prevLastWriteVersion = EmptyVersion
    THEN Nil
    ELSE IF prevLastWriteVersion > currentVersion
         THEN NewNamespaceNotActive(prevLastWriteVersion)
         ELSE Nil

VersionCheckInit ==
    /\ SagaParked
    /\ ValidatorParked
    /\ leases = <<>>
    /\ apiIn \in [fn : {"NewWorkflowVersionCheck"},
                   prevLastWriteVersion : Versions,
                   currentVersion : Versions]
    /\ apiOut = Idle

VersionCheck ==
    /\ apiIn.fn = "NewWorkflowVersionCheck"
    /\ apiOut = Idle
    /\ apiOut' = [err |-> NewWorkflowVersionCheck(apiIn.prevLastWriteVersion,
                                                  apiIn.currentVersion)]
    /\ UNCHANGED <<apiIn, leases, sagaVars, vIn, vOut>>

VersionCheckNext == VersionCheck

SpecVersionCheck == VersionCheckInit /\ [][VersionCheckNext]_vars

\* --------------------------------------------------- NewWorkflowWithSignal

\* a nil workflow.MutableState
NoMutableState == [kind |-> "no mutable state"]

\* signalWithStartRequest == nil
NoSignal == [kind |-> "no signal"]

\* workflow.NewMutableState(...): an empty history, no workflow task
NewMutableState ==
    [events |-> <<>>, signalRequested |-> {}, workflowTask |-> "none",
     bypassTaskGeneration |-> FALSE]

\* the error a callee returns when it is the one that fails
CalleeError(callee) == [kind |-> "error", from |-> callee]

\* the callees of NewWorkflowWithSignal that can return an error
Callees == {"SetHistoryTree", "AddWorkflowExecutionStartedEvent",
            "AddWorkflowExecutionSignaled", "AddFirstWorkflowTaskScheduled",
            "AddWorkflowTaskStartedEvent"}

\* a callee is run on the state st = [ms, err, attempted] of the function;
\* when it is the failing one it leaves the mutable state as it found it
Attempt(st, callee, failAt, msAfter) ==
    IF callee = failAt
    THEN [st EXCEPT !.err = CalleeError(callee), !.attempted = Append(@, callee)]
    ELSE [st EXCEPT !.ms = msAfter, !.attempted = Append(@, callee)]

CreateMutableState(failAt) ==
    Attempt([ms |-> NoMutableState, err |-> Nil, attempted |-> <<>>],
            "SetHistoryTree", failAt, NewMutableState)

AddWorkflowExecutionStartedEvent(st, failAt) ==
    Attempt(st, "AddWorkflowExecutionStartedEvent", failAt,
            [st.ms EXCEPT !.events = Append(@, "WorkflowExecutionStarted")])

AddSignalRequested(st, requestId) ==
    [st EXCEPT !.ms.signalRequested = @ \cup {requestId},
               !.attempted = Append(@, "AddSignalRequested")]

AddWorkflowExecutionSignaled(st, failAt) ==
    Attempt(st, "AddWorkflowExecutionSignaled", failAt,
            [st.ms EXCEPT !.events = Append(@, "WorkflowExecutionSignaled")])

\* schedules no workflow task when the first workflow task backs off
AddFirstWorkflowTaskScheduled(st, firstTaskBackoff, bypassTaskGeneration, failAt) ==
    Attempt(st, "AddFirstWorkflowTaskScheduled", failAt,
            IF firstTaskBackoff
            THEN st.ms
            ELSE [st.ms EXCEPT !.events = Append(@, "WorkflowTaskScheduled"),
                               !.workflowTask = "scheduled",
                               !.bypassTaskGeneration = bypassTaskGeneration])

HasPendingWorkflowTask(ms) == ms.workflowTask # "none"

AddWorkflowTaskStartedEvent(st, failAt) ==
    Attempt(st, "AddWorkflowTaskStartedEvent", failAt,
            [st.ms EXCEPT !.events = Append(@, "WorkflowTaskStarted"),
                          !.workflowTask = "started"])

GenerateFirstWorkflowTaskEvenForChild(st, hasParentInfo, firstTaskBackoff, bypassTaskGeneration, failAt) ==
    AddFirstWorkflowTaskScheduled(st, firstTaskBackoff, bypassTaskGeneration, failAt)

GenerateFirstWorkflowTask(st, hasParentInfo, firstTaskBackoff, bypassTaskGeneration, failAt) ==
    IF ~hasParentInfo
    THEN AddFirstWorkflowTaskScheduled(st, firstTaskBackoff, bypassTaskGeneration, failAt)
    ELSE st

\* if signalWithStartRequest != nil { ... }
ApplySignal(st, signalWithStartRequest, failAt) ==
    IF signalWithStartRequest # NoSignal
    THEN AddWorkflowExecutionSignaled(
             IF signalWithStartRequest.RequestId # ""
             THEN AddSignalRequested(st, signalWithStartRequest.RequestId)
             ELSE st,
             failAt)
    ELSE st

\* if requestEagerExecution && newMutableState.HasPendingWorkflowTask() { ... }
StartEagerly(st, requestEagerExecution, failAt) ==
    IF requestEagerExecution /\ HasPendingWorkflowTask(st.ms)
    THEN AddWorkflowTaskStartedEvent(st, failAt)
    ELSE st

ReturnedMutableStateEvenOnError(st) == st.ms

\* return nil, err on every error; return newMutableState, nil at the end
ReturnedMutableState(st) ==
    IF IsError(st.err) THEN NoMutableState ELSE st.ms

\* the function, every step followed by its "if err != nil { return nil, err }";
\* newMutableState is the local object as the function leaves it
NewWorkflowWithSignal(in) ==
    LET s1 == CreateMutableState(in.failAt)
        s2 == IF IsError(s1.err) THEN s1
              ELSE AddWorkflowExecutionStartedEvent(s1, in.failAt)
        s3 == IF IsError(s2.err) THEN s2
              ELSE ApplySignal(s2, in.signalWithStartRequest, in.failAt)
        s4 == IF IsError(s3.err) THEN s3
              ELSE GenerateFirstWorkflowTask(s3, in.hasParentExecutionInfo,
                       in.firstTaskBackoff, in.requestEagerExecution, in.failAt)
        s5 == IF IsError(s4.err) THEN s4
              ELSE StartEagerly(s4, in.requestEagerExecution, in.failAt)
    IN  [ms |-> ReturnedMutableState(s5), err |-> s5.err,
         newMutableState |-> s5.ms, attempted |-> s5.attempted]

NewWorkflowInit ==
    /\ SagaParked
    /\ ValidatorParked
    /\ leases = <<>>
    /\ apiIn \in [fn : {"NewWorkflowWithSignal"},
                   signalWithStartRequest : {NoSignal, [RequestId |-> ""], [RequestId |-> "req-1"]},
                   hasParentExecutionInfo : BOOLEAN,
                   requestEagerExecution : BOOLEAN,
                   firstTaskBackoff : BOOLEAN,
                   failAt : Callees \cup {"none"}]
    /\ apiOut = Idle

NewWorkflow ==
    /\ apiIn.fn = "NewWorkflowWithSignal"
    /\ apiOut = Idle
    /\ apiOut' = NewWorkflowWithSignal(apiIn)
    /\ UNCHANGED <<apiIn, leases, sagaVars, vIn, vOut>>

NewWorkflowNext == NewWorkflow

SpecNewWorkflow == NewWorkflowInit /\ [][NewWorkflowNext]_vars

\* ---------------------------------- ValidateStartWorkflowExecutionRequest

\* request.TaskQueue == nil, request.WorkflowType == nil
Absent == 0 - 1

\* serviceerror.NewInvalidArgument(message)
NewInvalidArgument(message) == [kind |-> "InvalidArgument", message |-> message]

\* the error of common.CheckEventBlobSizeLimit
ErrBlobSizeExceedsLimit == [kind |-> "BlobSizeExceedsLimit"]

\* common.ErrMemoSizeExceedsLimit
ErrMemoSizeExceedsLimit == [kind |-> "MemoSizeExceedsLimit"]

\* timestamp.ValidateProtoDuration: a duration (in seconds) must be
\* non-negative; zero means no timeout and is legal
ValidateProtoDuration(d) ==
    IF d < 0 THEN CalleeError("ValidateProtoDuration") ELSE Nil

\* common.CheckEventBlobSizeLimit: a size at or above the error threshold fails
CheckEventBlobSizeLimit(actualSize, errorLimit) ==
    IF actualSize >= errorLimit THEN ErrBlobSizeExceedsLimit ELSE Nil

\* worker_versioning.ValidateVersioningOverride
ValidateVersioningOverride(override) ==
    IF override = "invalid" THEN CalleeError("ValidateVersioningOverride") ELSE Nil

\* retrypolicy.Validate
RetryPolicyValidate(policy) ==
    IF policy = "invalid" THEN CalleeError("retrypolicy.Validate") ELSE Nil

ValidateStartMemoUnchecked(workflowInputSize, workflowMemoSize) ==
    [err |-> CheckEventBlobSizeLimit(workflowInputSize, BlobSizeLimitError),
     memoSizeRecorded |-> ~IsError(CheckEventBlobSizeLimit(workflowInputSize, BlobSizeLimitError))]

\* the error returned, and whether metrics.MemoSize was recorded
ValidateStart(workflowInputSize, workflowMemoSize) ==
    IF IsError(CheckEventBlobSizeLimit(workflowInputSize, BlobSizeLimitError))
    THEN [err |-> CheckEventBlobSizeLimit(workflowInputSize, BlobSizeLimitError),
          memoSizeRecorded |-> FALSE]
    ELSE IF IsError(CheckEventBlobSizeLimit(workflowMemoSize, MemoSizeLimitError))
         THEN [err |-> ErrMemoSizeExceedsLimit, memoSizeRecorded |-> TRUE]
         ELSE [err |-> Nil, memoSizeRecorded |-> TRUE]

\* names are given by their lengths, Absent for a nil TaskQueue or WorkflowType
FirstStructuralError(request) ==
    IF request.RequestIdLen = 0
    THEN NewInvalidArgument("Missing request ID.")
    ELSE IF IsError(ValidateProtoDuration(request.WorkflowExecutionTimeout))
    THEN NewInvalidArgument("invalid WorkflowExecutionTimeoutSeconds")
    ELSE IF IsError(ValidateProtoDuration(request.WorkflowRunTimeout))
    THEN NewInvalidArgument("invalid WorkflowRunTimeoutSeconds")
    ELSE IF IsError(ValidateProtoDuration(request.WorkflowTaskTimeout))
    THEN NewInvalidArgument("invalid WorkflowTaskTimeoutSeconds")
    ELSE IF request.TaskQueueNameLen = Absent \/ request.TaskQueueNameLen = 0
    THEN NewInvalidArgument("Missing Taskqueue.")
    ELSE IF request.WorkflowTypeNameLen = Absent \/ request.WorkflowTypeNameLen = 0
    THEN NewInvalidArgument("Missing WorkflowType.")
    ELSE IF request.NamespaceLen > MaxIDLengthLimit
    THEN NewInvalidArgument("Namespace exceeds length limit.")
    ELSE IF request.WorkflowIdLen > MaxIDLengthLimit
    THEN NewInvalidArgument("WorkflowId exceeds length limit.")
    ELSE IF request.TaskQueueNameLen > MaxIDLengthLimit
    THEN NewInvalidArgument("TaskQueue exceeds length limit.")
    ELSE IF request.WorkflowTypeNameLen > MaxIDLengthLimit
    THEN NewInvalidArgument("WorkflowType exceeds length limit.")
    ELSE Nil

ValidateStartWorkflowExecutionRequest(request) ==
    IF IsError(FirstStructuralError(request))
    THEN [err |-> FirstStructuralError(request), memoSizeRecorded |-> FALSE]
    ELSE IF IsError(ValidateVersioningOverride(request.VersioningOverride))
    THEN [err |-> ValidateVersioningOverride(request.VersioningOverride),
          memoSizeRecorded |-> FALSE]
    ELSE IF IsError(RetryPolicyValidate(request.RetryPolicy))
    THEN [err |-> RetryPolicyValidate(request.RetryPolicy), memoSizeRecorded |-> FALSE]
    ELSE ValidateStart(request.InputSize, request.MemoSize)

\* payload sizes around their thresholds
InputSizes == {0, BlobSizeLimitError - 1, BlobSizeLimitError}

MemoSizes == {0, MemoSizeLimitError - 1, MemoSizeLimitError}

\* timeouts in seconds: negative, zero (no timeout), positive
TimeoutValues == {0 - 1, 0, 5}

OptionalNameLens == {Absent, 0, 1, MaxIDLengthLimit + 1}

ValidateStartInit ==
    /\ SagaParked
    /\ ValidatorParked
    /\ leases = <<>>
    /\ apiIn \in [fn : {"ValidateStartWorkflowExecutionRequest"},
                   RequestIdLen : {0, 1},
                   WorkflowExecutionTimeout : TimeoutValues,
                   WorkflowRunTimeout : TimeoutValues,
                   WorkflowTaskTimeout : TimeoutValues,
                   TaskQueueNameLen : OptionalNameLens,
                   WorkflowTypeNameLen : OptionalNameLens,
                   NamespaceLen : {MaxIDLengthLimit, MaxIDLengthLimit + 1},
                   WorkflowIdLen : {MaxIDLengthLimit, MaxIDLengthLimit + 1},
                   VersioningOverride : {"valid", "invalid"},
                   RetryPolicy : {"valid", "invalid"},
                   InputSize : InputSizes,
                   MemoSize : MemoSizes]
    /\ apiOut = Idle

ValidateRequest ==
    /\ apiIn.fn = "ValidateStartWorkflowExecutionRequest"
    /\ apiOut = Idle
    /\ apiOut' = ValidateStartWorkflowExecutionRequest(apiIn)
    /\ UNCHANGED <<apiIn, leases, sagaVars, vIn, vOut>>

ValidateStartNext == ValidateRequest

SpecValidateStart == ValidateStartInit /\ [][ValidateStartNext]_vars

\* ---------------------------------- OverrideStartWorkflowExecutionRequest

\* a nil *durationpb.Duration
NilDuration == 0 - 1

\* timestamp.DurationValue: a nil duration reads as zero
DurationValue(d) == IF d = NilDuration THEN 0 ELSE d

Min(a, b) == IF a < b THEN a ELSE b

\* common.OverrideWorkflowRunTimeout: capped to a positive execution timeout
OverrideWorkflowRunTimeout(workflowRunTimeout, workflowExecutionTimeout) ==
    IF /\ workflowExecutionTimeout > 0
       /\ (workflowRunTimeout = 0 \/ workflowRunTimeout > workflowExecutionTimeout)
    THEN workflowExecutionTimeout
    ELSE workflowRunTimeout

\* common.OverrideWorkflowTaskTimeout: the default when none is given, capped
\* to the run timeout (zero meaning no timeout), at least one second
OverrideWorkflowTaskTimeout(taskStartToCloseTimeout, workflowRunTimeout, defaultTimeout) ==
    LET chosen == IF taskStartToCloseTimeout = 0 THEN defaultTimeout
                  ELSE taskStartToCloseTimeout
        capped == IF workflowRunTimeout > 0 THEN Min(chosen, workflowRunTimeout)
                  ELSE chosen
    IN  IF capped < 1 THEN 1 ELSE capped

\* if computed != timestamp.DurationValue(field) { field = durationpb.New(computed); metric }
Rewritten(field, computed) ==
    IF computed # DurationValue(field) THEN computed ELSE field

Emitted(field, computed, metric) ==
    IF computed # DurationValue(field) THEN <<metric>> ELSE <<>>

OverrideStartWorkflowExecutionRequestStaleRunTimeout(request) ==
    LET workflowRunTimeout ==
            OverrideWorkflowRunTimeout(DurationValue(request.WorkflowRunTimeout),
                                       DurationValue(request.WorkflowExecutionTimeout))
        workflowTaskStartToCloseTimeout ==
            OverrideWorkflowTaskTimeout(DurationValue(request.WorkflowTaskTimeout),
                                        DurationValue(request.WorkflowRunTimeout),
                                        request.DefaultWorkflowTaskTimeout)
    IN  [request |-> [request EXCEPT
             !.WorkflowRunTimeout = Rewritten(@, workflowRunTimeout),
             !.WorkflowTaskTimeout = Rewritten(@, workflowTaskStartToCloseTimeout)],
         metrics |-> Emitted(request.WorkflowRunTimeout, workflowRunTimeout,
                             "WorkflowRunTimeoutOverrideCount")
                     \o Emitted(request.WorkflowTaskTimeout, workflowTaskStartToCloseTimeout,
                                "WorkflowTaskTimeoutOverrideCount")]

\* the request as the function leaves it and the metrics it records; the task
\* timeout is computed from the run timeout as rewritten
OverrideStartWorkflowExecutionRequest(request) ==
    LET workflowRunTimeout ==
            OverrideWorkflowRunTimeout(DurationValue(request.WorkflowRunTimeout),
                                       DurationValue(request.WorkflowExecutionTimeout))
        afterRun == [request EXCEPT !.WorkflowRunTimeout = Rewritten(@, workflowRunTimeout)]
        workflowTaskStartToCloseTimeout ==
            OverrideWorkflowTaskTimeout(DurationValue(request.WorkflowTaskTimeout),
                                        DurationValue(afterRun.WorkflowRunTimeout),
                                        request.DefaultWorkflowTaskTimeout)
    IN  [request |-> [afterRun EXCEPT
             !.WorkflowTaskTimeout = Rewritten(@, workflowTaskStartToCloseTimeout)],
         metrics |-> Emitted(request.WorkflowRunTimeout, workflowRunTimeout,
                             "WorkflowRunTimeoutOverrideCount")
                     \o Emitted(request.WorkflowTaskTimeout, workflowTaskStartToCloseTimeout,
                                "WorkflowTaskTimeoutOverrideCount")]

\* timeouts of a validated request: nil or a non-negative number of seconds
Timeouts == {NilDuration} \cup 0..MaxTimeout

OverrideInit ==
    /\ SagaParked
    /\ ValidatorParked
    /\ leases = <<>>
    /\ apiIn \in [fn : {"OverrideStartWorkflowExecutionRequest"},
                   WorkflowExecutionTimeout : Timeouts,
                   WorkflowRunTimeout : Timeouts,
                   WorkflowTaskTimeout : Timeouts,
                   DefaultWorkflowTaskTimeout : 1..MaxTimeout]
    /\ apiOut = Idle

Override ==
    /\ apiIn.fn = "OverrideStartWorkflowExecutionRequest"
    /\ apiOut = Idle
    /\ apiOut' = OverrideStartWorkflowExecutionRequest(apiIn)
    /\ UNCHANGED <<apiIn, leases, sagaVars, vIn, vOut>>

OverrideNext == Override

SpecOverride == OverrideInit /\ [][OverrideNext]_vars

\* ---------------------------------------------- NewWorkflowLeaseAndContext

\* existingLease == nil; a lease is referred to by its position in leases
NoLease == 0

\* the mutable states callers hold, each with the identifiers it reports
MutableStates ==
    {[id |-> i, NamespaceID |-> "ns-id", WorkflowId |-> "wf", RunId |-> ToString(i)] :
        i \in 1..NumMutableStates}

\* definition.NewWorkflowKey(namespaceID, workflowID, runID)
NewWorkflowKey(namespaceID, workflowID, runID) ==
    [NamespaceID |-> namespaceID, WorkflowID |-> workflowID, RunID |-> runID]

\* workflow.NewContext(config, key, ...)
NewContext(key) == [key |-> key]

\* NewWorkflowLease(context, releaseFn, ms); released records that the holder
\* has called the release function, which for wcache.NoopReleaseFn does nothing
NewWorkflowLease(context, releaseFn, ms) ==
    [context |-> context, releaseFn |-> releaseFn, ms |-> ms, released |-> FALSE]

NewWorkflowLeaseAndContextAlwaysNew(existingLease, ms, ls) ==
    [lease  |-> Len(ls) + 1,
     err    |-> Nil,
     leases |-> Append(ls, NewWorkflowLease(
                    NewContext(NewWorkflowKey(ms.NamespaceID, ms.WorkflowId, ms.RunId)),
                    "NoopReleaseFn", ms))]

\* the lease returned, the error, and the leases that exist afterwards
NewWorkflowLeaseAndContext(existingLease, ms, ls) ==
    IF existingLease # NoLease
    THEN [lease |-> existingLease, err |-> Nil, leases |-> ls]
    ELSE [lease  |-> Len(ls) + 1,
          err    |-> Nil,
          leases |-> Append(ls, NewWorkflowLease(
                         NewContext(NewWorkflowKey(ms.NamespaceID, ms.WorkflowId, ms.RunId)),
                         "NoopReleaseFn", ms))]

LeaseInit ==
    /\ SagaParked
    /\ ValidatorParked
    /\ ApiParked

\* a caller passes nil or any lease it was handed before, and any mutable state
LeaseCall(existingLease, ms) ==
    /\ existingLease = NoLease => Len(leases) < MaxLeases
    /\ apiIn' = [fn |-> "NewWorkflowLeaseAndContext",
                 existingLease |-> existingLease, ms |-> ms]
    /\ LET r == NewWorkflowLeaseAndContext(existingLease, ms, leases)
       IN  /\ apiOut' = [lease |-> r.lease, err |-> r.err]
           /\ leases' = r.leases
    /\ UNCHANGED <<sagaVars, vIn, vOut>>

\* the holder of lease i calls its release function
LeaseRelease(i) ==
    /\ ~leases[i].released
    /\ leases' = [leases EXCEPT ![i].released = TRUE]
    /\ UNCHANGED <<apiIn, apiOut, sagaVars, vIn, vOut>>

LeaseNext ==
    \/ \E existingLease \in 0..Len(leases), ms \in MutableStates :
           LeaseCall(existingLease, ms)
    \/ \E i \in 1..Len(leases) : LeaseRelease(i)

SpecLease == LeaseInit /\ [][LeaseNext]_vars

\* ------------------------------------------------------------------ claims

Invoked(name) == \E i \in 1..Len(calls) : calls[i] = name

Returned == pc = "returned"

Counts(r) == <<r.DeleteSuccessCount, r.DeleteErrorCount>>

\* C1: DeleteNamespaceActivity is invoked only after deleteWorkflowExecutions has
\* returned a nil error; when deleteWorkflowExecutions returns an error the saga
\* returns that error and DeleteNamespaceActivity is never invoked.
C1_DeleteNamespaceOnlyAfterExecutionsDeleted ==
    /\ Invoked("DeleteNamespaceActivity") => dwe = "ok"
    /\ dwe = "failed" =>
          /\ Returned
          /\ IsError(err)
          /\ ~Invoked("DeleteNamespaceActivity")

C1_Witness ==
    /\ Invoked("DeleteNamespaceActivity")
    /\ Invoked("EnsureNoExecutionsAdvVisibilityActivity")
    /\ Returned

\* C2: when the count activity reports 0, neither the DeleteExecutions child
\* workflow nor the ensure activity is invoked, deleteWorkflowExecutions returns
\* the zero result with no error, and a successful DeleteNamespaceActivity then
\* gives the result {0, 0, true}.
C2_ZeroCountSkipsDeletion ==
    executionsCount = 0 =>
        /\ ~Invoked("DeleteExecutionsWorkflow")
        /\ ~Invoked("EnsureNoExecutionsAdvVisibilityActivity")
        /\ dwe = "ok"
        /\ Counts(result) = <<0, 0>>
        /\ (Returned /\ deleteNsOutcome = Nil) =>
              /\ err = Nil
              /\ result = [DeleteSuccessCount |-> 0, DeleteErrorCount |-> 0,
                           NamespaceDeleted |-> TRUE]

C2_Witness ==
    /\ executionsCount = 0
    /\ Returned
    /\ deleteNsOutcome = Nil

\* C3: a saga that ends with an error returns NamespaceDeleted = false and the
\* counts so far: (0, 0) when the child workflow has not returned successfully,
\* the child's reported counts when it has.
C3_PartialResultWithError ==
    (Returned /\ IsError(err)) =>
        /\ result.NamespaceDeleted = FALSE
        /\ Counts(result) = IF der.reported
                            THEN <<der.SuccessCount, der.ErrorCount>>
                            ELSE <<0, 0>>

C3_Witness ==
    /\ Returned
    /\ IsError(err)
    /\ der.reported
    /\ der.ErrorCount = 2
    /\ IsError(deleteNsOutcome)

IsExecutionsRemainError(e) ==
    /\ e.kind = "app"
    /\ e.type \in {ExecutionsStillExistErrType, NoProgressErrType,
                   NotDeletedExecutionsStillExistErrType}

\* C4: when the ensure activity fails with an application error of type
\* ExecutionsStillExist, NoProgress or NotDeletedExecutionsStillExist, the saga
\* returns a retryable application error with the same message and type whose
\* detail is the count the activity reported, NamespaceDeleted is false and
\* DeleteNamespaceActivity is not invoked; any other failure of the activity is
\* returned wrapped with ErrUnableToExecuteActivity.
C4_EnsureErrorConversion ==
    IsError(ensureErr) =>
        /\ Returned
        /\ result.NamespaceDeleted = FALSE
        /\ ~Invoked("DeleteNamespaceActivity")
        /\ IF IsExecutionsRemainError(ensureErr)
           THEN /\ err.kind = "app"
                /\ err.nonRetryable = FALSE
                /\ err.msg = ensureErr.msg
                /\ err.type = ensureErr.type
                /\ err.hasDetails
                /\ ensureErr.hasDetails => err.details = ensureErr.details
           ELSE /\ err.kind = "wrapped"
                /\ err.sentinel = "ErrUnableToExecuteActivity"
                /\ err.cause = ensureErr

C4_Witness ==
    /\ Returned
    /\ IsExecutionsRemainError(ensureErr)
    /\ ensureErr.type = NotDeletedExecutionsStillExistErrType
    /\ ensureErr.nonRetryable
    /\ err.kind = "app"
    /\ err.details = 2

\* C5: NamespaceDeleted is true exactly when the saga returned a nil error, which
\* is exactly when DeleteNamespaceActivity was invoked and succeeded; the counts
\* are then those the child workflow reported, or (0, 0) when it was skipped.
C5_NamespaceDeletedIffSuccess ==
    /\ result.NamespaceDeleted <=> (Returned /\ err = Nil)
    /\ (Returned /\ err = Nil) <=>
           (Invoked("DeleteNamespaceActivity") /\ deleteNsOutcome = Nil)
    /\ (Returned /\ err = Nil) =>
           Counts(result) = IF der.reported
                            THEN <<der.SuccessCount, der.ErrorCount>>
                            ELSE <<0, 0>>

C5_Witness ==
    /\ Returned
    /\ err = Nil
    /\ der.reported
    /\ result = [DeleteSuccessCount |-> 5, DeleteErrorCount |-> 0,
                 NamespaceDeleted |-> TRUE]

\* the main sequence returns from workflow.Sleep of the delay wait in this step
DelayResumes ==
    /\ pc = "delayWait"
    /\ (pc' # "delayWait" \/ Len(timers') > Len(timers))

\* the duration the validator accepted with the most recent accepted update
LastAcceptedDelay == ParseDuration(lastAccepted.input).d

\* C6 as stated: an update accepted while no wait is outstanding, before
\* AwaitOptionalDelay is entered, never lengthens the delay and never introduces
\* a delay where none was configured.
C6_UpdateBeforeDelayNeverLengthens ==
    (lastAccepted.called /\ lastAccepted.wait = 0) =>
        \A i \in 1..Len(timers) : timers[i].d <= params.NamespaceDeleteDelay

\* C6 amended: the update handler changes no wait's duration and alters no wait
\* that has elapsed or been cancelled; all it does to a wait is cancel it while
\* it is outstanding.  Once AwaitOptionalDelay has ended no wait is armed or
\* altered any more, whatever updates are accepted.
C6_UpdateOnlyCancelsOutstandingWait ==
    [][ /\ (nUpdates' # nUpdates) =>
              /\ Len(timers') = Len(timers)
              /\ \A i \in 1..Len(timers) :
                    /\ timers'[i].d = timers[i].d
                    /\ timers[i].state = "armed" => (i = Len(timers) /\ pc = "delayWait")
                    /\ timers'[i].state =
                          IF lastUpdate'.accepted /\ timers[i].state = "armed"
                          THEN "cancelled"
                          ELSE timers[i].state
        /\ (pc \in {"deleteNs", "returned"}) => timers' = timers
      ]_vars

\* an update with a positive duration accepted after the delay wait has ended
C6_Witness ==
    /\ pc = "deleteNs"
    /\ Len(timers) = 1
    /\ timers[1].state = "fired"
    /\ lastUpdate.called
    /\ lastUpdate.accepted
    /\ ~lastUpdate.outstanding
    /\ lastAccepted.wait = 1
    /\ namespaceDeleteDelay > 0

\* C7 as stated: once an update with value 0 has been accepted while the delay
\* wait was outstanding, the next resume of the main sequence ends
\* AwaitOptionalDelay without arming another wait.
C7_ZeroUpdateEndsDelay ==
    [][ (DelayResumes /\ timers[Len(timers)].zeroed) =>
            (pc' = "deleteNs" /\ Len(timers') = Len(timers)) ]_vars

\* C7 amended: an update with value 0 accepted while the delay wait is
\* outstanding cancels the wait; if the most recently accepted update still has
\* value 0 when the main sequence resumes, AwaitOptionalDelay ends there without
\* arming another wait and DeleteNamespaceActivity is invoked.
C7_ZeroUpdateInEffectEndsDelay ==
    [][ /\ \A i \in 1..Len(timers') :
              timers'[i].zeroed => timers'[i].state = "cancelled"
        /\ (DelayResumes /\ timers[Len(timers)].zeroed /\ LastAcceptedDelay = 0) =>
              /\ pc' = "deleteNs"
              /\ timers' = timers
              /\ calls' = Append(calls, "DeleteNamespaceActivity")
      ]_vars

C7_Witness ==
    /\ pc = "deleteNs"
    /\ Len(timers) = 1
    /\ timers[1].zeroed
    /\ timers[1].state = "cancelled"
    /\ lastAccepted.called
    /\ LastAcceptedDelay = 0

\* C8: the confirmation string says the existing delay timer was cancelled
\* exactly when a delay wait was outstanding as the handler ran, followed by
\* 'removed' when the new duration is 0 and 'updated to <duration>' otherwise.
C8_ReplyReportsActualCancellation ==
    (lastUpdate.called /\ lastUpdate.accepted) =>
        LET d == ParseDuration(lastUpdate.input).d
            change == IF d = 0
                      THEN "Namespace delete delay is removed."
                      ELSE "Namespace delete delay is updated to "
                               \o DurationString(d) \o "."
        IN  lastUpdate.reply =
                IF lastUpdate.outstanding
                THEN "Existing namespace delete delay timer is cancelled. " \o change
                ELSE change

\* C9: every delay wait is armed with the duration of the most recently accepted
\* update, or with params.NamespaceDeleteDelay when no update has been accepted.
C9_WaitUsesLatestAcceptedDelay ==
    [][ Len(timers') > Len(timers) =>
            /\ Len(timers') = Len(timers) + 1
            /\ timers'[Len(timers')].state = "armed"
            /\ timers'[Len(timers')].d =
                  IF lastAccepted.called
                  THEN LastAcceptedDelay
                  ELSE params.NamespaceDeleteDelay ]_vars

\* two updates accepted during the first wait; the second wait uses the later one
C9_Witness ==
    /\ Len(timers) = 2
    /\ timers[1].d = params.NamespaceDeleteDelay
    /\ nUpdates = 2
    /\ lastAccepted.called
    /\ lastAccepted.wait = 1
    /\ ~lastAccepted.outstanding
    /\ timers[2].d = LastAcceptedDelay
    /\ timers[2].d # timers[1].d

\* the inputs the validator is to reject
MustReject(s) ==
    \/ s = <<>>
    \/ ~ParseDuration(s).ok
    \/ ParseDuration(s).d < 0
    \/ ParseDuration(s).d > 30 * 24 * 60 * 60

\* C10: the validator rejects, with a non-retryable application error of the
\* validation type, exactly the empty string, the unparsable strings, the
\* negative durations and the durations above 30 days.
C10_ValidatorRejectsExactly ==
    vOut # Idle =>
        /\ IsError(vOut) <=> MustReject(vIn)
        /\ IsError(vOut) =>
              /\ vOut.kind = "app"
              /\ vOut.nonRetryable
              /\ vOut.type = ValidationErrorErrType

\* exactly 30 days is accepted
C10_Witness ==
    /\ vIn = <<"7", "2", "0", "h">>
    /\ vOut = Nil


\* the position of a step in the fixed order of the saga
StepRank(name) ==
    CASE name = "Sleep" -> 1
      [] name = "IsAdvancedVisibilityActivity" -> 2
      [] name = "CountExecutionsAdvVisibilityActivity" -> 3
      [] name = "DeleteExecutionsWorkflow" -> 4
      [] name = "EnsureNoExecutionsAdvVisibilityActivity" -> 5
      [] name = "DeleteNamespaceActivity" -> 6

StepsInOrder(cs) ==
    \A i, j \in 1..Len(cs) : i < j => StepRank(cs[i]) < StepRank(cs[j])

SettleTimerFired ==
    settleTimer = [d |-> namespaceCacheRefreshDelay, state |-> "fired"]

\* C11: the steps run in the fixed order settle wait, (probe,) count, bulk
\* deletion, verification, delay wait, namespace deletion, each at most once;
\* no activity or child workflow is called before the 11-second settle timer
\* has fired; the delay wait is armed only after the executions are deleted
\* and the namespace deletion is called only with no delay wait outstanding;
\* a step that fails ends the run with nothing further called, and a run
\* that has returned calls nothing more.
C11_StepsInFixedOrder ==
    [][ /\ StepsInOrder(calls')
        /\ (Len(calls') > 0 => calls'[1] = "Sleep")
        /\ (Len(calls') > 1 => SettleTimerFired')
        /\ (Len(timers') > 0 => dwe' = "ok")
        /\ (Invoked("DeleteNamespaceActivity")' =>
               /\ dwe' = "ok"
               /\ \A i \in 1..Len(timers') : timers'[i].state # "armed")
        /\ (dwe' = "failed" \/ deleteNsOutcome' \notin {Pending, Nil} \/ settleTimer'.state = "cancelled" =>
               /\ pc' = "returned"
               /\ IsError(err')
               /\ calls' = calls)
        /\ (pc = "returned" => pc' = "returned" /\ calls' = calls /\ timers' = timers)
      ]_vars

\* the whole sequence ran, delay wait included, up to the namespace deletion
C11_Witness ==
    /\ Returned
    /\ err = Nil
    /\ Len(timers) > 0
    /\ calls = <<"Sleep", "IsAdvancedVisibilityActivity",
                 "CountExecutionsAdvVisibilityActivity", "DeleteExecutionsWorkflow",
                 "EnsureNoExecutionsAdvVisibilityActivity", "DeleteNamespaceActivity">>


\* C12: NewWorkflowVersionCheck returns a NamespaceNotActive error exactly when
\* prevLastWriteVersion is not the empty-version sentinel and is strictly
\* greater than the new mutable state's current version; otherwise, equality
\* included, it returns nil.
C12_VersionCheckFailsIffNewerPrior ==
    apiOut # Idle =>
        /\ apiOut.err \in {Nil, NewNamespaceNotActive(apiIn.prevLastWriteVersion)}
        /\ apiOut.err # Nil <=>
               /\ apiIn.prevLastWriteVersion # EmptyVersion
               /\ apiIn.prevLastWriteVersion > apiIn.currentVersion

\* a prior version that is set and newer than the current one is refused
C12_Witness ==
    /\ apiOut # Idle
    /\ apiIn.prevLastWriteVersion # EmptyVersion
    /\ apiIn.prevLastWriteVersion > apiIn.currentVersion
    /\ apiOut.err = NewNamespaceNotActive(apiIn.prevLastWriteVersion)


HasEvent(ms, ev) == \E i \in 1..Len(ms.events) : ms.events[i] = ev

Attempted(callee) == \E i \in 1..Len(apiOut.attempted) : apiOut.attempted[i] = callee

\* C13: NewWorkflowWithSignal returns a nil mutable state together with every
\* error and a mutable state only with a nil error; when appending the
\* execution-started event fails, the function calls nothing further, so the
\* object it abandons carries no signal-requested marker, no signaled event
\* and no workflow task event.
C13_AllOrNothing ==
    apiOut # Idle =>
        /\ IsError(apiOut.err) <=> apiOut.ms = NoMutableState
        /\ IsError(apiOut.err) <=> apiIn.failAt \in {c \in Callees : Attempted(c)}
        /\ ~IsError(apiOut.err) =>
               /\ apiOut.ms = apiOut.newMutableState
               /\ apiOut.ms.events[1] = "WorkflowExecutionStarted"
        /\ (Attempted("AddWorkflowExecutionStartedEvent")
             /\ apiIn.failAt = "AddWorkflowExecutionStartedEvent") =>
               /\ apiOut.attempted = <<"SetHistoryTree", "AddWorkflowExecutionStartedEvent">>
               /\ apiOut.newMutableState = NewMutableState

\* a signal with a request id was to be applied, and the started event failed
C13_Witness ==
    /\ apiOut # Idle
    /\ apiIn.failAt = "AddWorkflowExecutionStartedEvent"
    /\ apiIn.signalWithStartRequest = [RequestId |-> "req-1"]
    /\ ~apiIn.hasParentExecutionInfo
    /\ apiOut.err = CalleeError("AddWorkflowExecutionStartedEvent")
    /\ apiOut.ms = NoMutableState


\* the index of the first occurrence of ev in the history of ms, 0 if none
EventIndex(ms, ev) ==
    IF HasEvent(ms, ev)
    THEN CHOOSE i \in 1..Len(ms.events) :
             /\ ms.events[i] = ev
             /\ \A j \in 1..(i - 1) : ms.events[j] # ev
    ELSE 0

\* no parent execution, a workflow task pending after first-task generation,
\* and eager execution requested
EagerStartCondition ==
    /\ ~apiIn.hasParentExecutionInfo
    /\ HasEvent(apiOut.newMutableState, "WorkflowTaskScheduled")
    /\ apiIn.requestEagerExecution

\* C14: whenever NewWorkflowWithSignal gets as far as its eager-start test, it
\* asks for the first workflow task to be started exactly when there is no
\* parent execution, a workflow task is pending after first-task generation
\* and eager execution was requested; on success the task is "started" exactly
\* then and otherwise stays as generation left it; a started task was
\* scheduled before; with a parent execution no first task is scheduled or
\* started.
C14_EagerStartIffCondition ==
    (apiOut # Idle /\ apiOut.newMutableState # NoMutableState) =>
        LET nms == apiOut.newMutableState
            reachedTest == \/ ~IsError(apiOut.err)
                           \/ apiIn.failAt = "AddWorkflowTaskStartedEvent"
        IN  /\ reachedTest =>
                   (Attempted("AddWorkflowTaskStartedEvent") <=> EagerStartCondition)
            /\ ~IsError(apiOut.err) =>
                   /\ apiOut.ms.workflowTask = "started" <=> EagerStartCondition
                   /\ apiOut.ms.workflowTask = "scheduled" <=>
                          /\ HasEvent(nms, "WorkflowTaskScheduled")
                          /\ ~EagerStartCondition
            /\ (nms.workflowTask = "started" \/ HasEvent(nms, "WorkflowTaskStarted")) =>
                   /\ HasEvent(nms, "WorkflowTaskScheduled")
                   /\ EventIndex(nms, "WorkflowTaskScheduled")
                          < EventIndex(nms, "WorkflowTaskStarted")
            /\ apiIn.hasParentExecutionInfo =>
                   /\ nms.workflowTask = "none"
                   /\ ~HasEvent(nms, "WorkflowTaskScheduled")
                   /\ ~HasEvent(nms, "WorkflowTaskStarted")
                   /\ ~Attempted("AddFirstWorkflowTaskScheduled")
                   /\ ~Attempted("AddWorkflowTaskStartedEvent")

\* the first workflow task of a parentless eager start was scheduled and started
C14_Witness ==
    /\ apiOut # Idle
    /\ apiIn.requestEagerExecution
    /\ ~apiIn.hasParentExecutionInfo
    /\ apiOut.err = Nil
    /\ apiOut.ms.workflowTask = "started"
    /\ apiOut.ms.events = <<"WorkflowExecutionStarted", "WorkflowTaskScheduled",
                            "WorkflowTaskStarted">>


\* the preconditions the claim lists: request id present, well-formed
\* timeouts, task queue and workflow type named, identifiers within the limit
StructurallyValid(request) ==
    /\ request.RequestIdLen > 0
    /\ request.WorkflowExecutionTimeout >= 0
    /\ request.WorkflowRunTimeout >= 0
    /\ request.WorkflowTaskTimeout >= 0
    /\ request.TaskQueueNameLen \in 1..MaxIDLengthLimit
    /\ request.WorkflowTypeNameLen \in 1..MaxIDLengthLimit
    /\ request.NamespaceLen <= MaxIDLengthLimit
    /\ request.WorkflowIdLen <= MaxIDLengthLimit

SizesWithinLimits(request) ==
    /\ request.InputSize < BlobSizeLimitError
    /\ request.MemoSize < MemoSizeLimitError

\* C15 as stated: for a structurally valid request, validation succeeds
\* exactly when the input and memo sizes are within their error limits.
C15_ValidIffSizesWithinLimits ==
    (apiOut # Idle /\ StructurallyValid(apiIn)) =>
        (apiOut.err = Nil <=> SizesWithinLimits(apiIn))

\* C15 amended: for a structurally valid request whose versioning override
\* and retry policy are valid too, validation succeeds exactly when the input
\* and memo sizes are within their error limits; an oversized input fails
\* with the blob-size error, an oversized memo with ErrMemoSizeExceedsLimit.
C15_ValidIffSizesWithinLimitsGivenOverrideAndRetryPolicy ==
    (/\ apiOut # Idle
     /\ StructurallyValid(apiIn)
     /\ apiIn.VersioningOverride = "valid"
     /\ apiIn.RetryPolicy = "valid") =>
        /\ apiOut.err = Nil <=> SizesWithinLimits(apiIn)
        /\ apiIn.InputSize >= BlobSizeLimitError => apiOut.err = ErrBlobSizeExceedsLimit
        /\ (apiIn.InputSize < BlobSizeLimitError /\ apiIn.MemoSize >= MemoSizeLimitError) =>
               apiOut.err = ErrMemoSizeExceedsLimit

\* a request that passes every other check fails on its memo alone
C15_Witness ==
    /\ apiOut # Idle
    /\ StructurallyValid(apiIn)
    /\ apiIn.VersioningOverride = "valid"
    /\ apiIn.RetryPolicy = "valid"
    /\ apiIn.InputSize = BlobSizeLimitError - 1
    /\ apiIn.MemoSize = MemoSizeLimitError
    /\ apiOut.err = ErrMemoSizeExceedsLimit


MetricEmitted(metric) ==
    \E i \in 1..Len(apiOut.metrics) : apiOut.metrics[i] = metric

\* what both readings of the claim share: the run timeout is capped by a
\* positive execution timeout, the execution timeout is left as it was, and a
\* field is rewritten, to a different value, exactly when its metric is emitted
OverrideCommon ==
    LET after == apiOut.request
    IN  /\ after.WorkflowExecutionTimeout = apiIn.WorkflowExecutionTimeout
        /\ DurationValue(apiIn.WorkflowExecutionTimeout) > 0 =>
               DurationValue(after.WorkflowRunTimeout)
                   <= DurationValue(apiIn.WorkflowExecutionTimeout)
        /\ after.WorkflowRunTimeout # apiIn.WorkflowRunTimeout
               <=> MetricEmitted("WorkflowRunTimeoutOverrideCount")
        /\ after.WorkflowRunTimeout # apiIn.WorkflowRunTimeout
               => after.WorkflowRunTimeout # DurationValue(apiIn.WorkflowRunTimeout)
        /\ after.WorkflowTaskTimeout # apiIn.WorkflowTaskTimeout
               <=> MetricEmitted("WorkflowTaskTimeoutOverrideCount")
        /\ after.WorkflowTaskTimeout # apiIn.WorkflowTaskTimeout
               => after.WorkflowTaskTimeout # DurationValue(apiIn.WorkflowTaskTimeout)
        /\ Len(apiOut.metrics) <= 2

\* C16 as stated: after the override the task start-to-close timeout never
\* exceeds the run timeout as rewritten (and the rest of the claim).
C16_TaskTimeoutNeverExceedsRunTimeout ==
    apiOut # Idle =>
        /\ OverrideCommon
        /\ DurationValue(apiOut.request.WorkflowTaskTimeout)
               <= DurationValue(apiOut.request.WorkflowRunTimeout)

\* C16 amended: after the override the run timeout does not exceed a positive
\* execution timeout, the task start-to-close timeout is at least one second
\* and does not exceed the run timeout as rewritten when that run timeout is
\* positive (a zero run timeout is no timeout and caps nothing), the execution
\* timeout is unchanged, and each field is rewritten, with its metric emitted,
\* exactly when the computed value differs from the supplied one.
C16_TaskTimeoutWithinPositiveRunTimeout ==
    apiOut # Idle =>
        /\ OverrideCommon
        /\ DurationValue(apiOut.request.WorkflowTaskTimeout) >= 1
        /\ DurationValue(apiOut.request.WorkflowRunTimeout) > 0 =>
               DurationValue(apiOut.request.WorkflowTaskTimeout)
                   <= DurationValue(apiOut.request.WorkflowRunTimeout)

\* both fields rewritten: the run timeout capped by the execution timeout,
\* then the task timeout capped by the new run timeout
C16_Witness ==
    /\ apiOut # Idle
    /\ apiIn.WorkflowExecutionTimeout = 1
    /\ apiIn.WorkflowRunTimeout = 0
    /\ apiIn.WorkflowTaskTimeout = 2
    /\ apiOut.request.WorkflowRunTimeout = 1
    /\ apiOut.request.WorkflowTaskTimeout = 1
    /\ apiOut.metrics = <<"WorkflowRunTimeoutOverrideCount",
                          "WorkflowTaskTimeoutOverrideCount">>


\* C17: no mutable state is bound to two distinct leases that are both
\* unreleased.
C17_NoExecutionStateUnderTwoLiveLeases ==
    \A i, j \in 1..Len(leases) :
        (i # j /\ ~leases[i].released /\ ~leases[j].released) =>
            leases[i].ms # leases[j].ms

\* C18: a call with a non-nil existing lease returns that lease and a nil
\* error and leaves the set of leases as it was, whatever mutable state is
\* passed (so feeding a result back in returns it again); a call with a nil
\* existing lease adds exactly one lease, unreleased and bound to the key
\* (namespace id, workflow id, run id) of the mutable state given, and returns it.
C18_ExistingLeaseReturnedElseNewLeaseForKey ==
    [][ <<apiIn, apiOut>>' # <<apiIn, apiOut>> =>
          IF apiIn'.existingLease # NoLease
          THEN /\ apiOut' = [lease |-> apiIn'.existingLease, err |-> Nil]
               /\ leases' = leases
          ELSE /\ apiOut' = [lease |-> Len(leases) + 1, err |-> Nil]
               /\ Len(leases') = Len(leases) + 1
               /\ SubSeq(leases', 1, Len(leases)) = leases
               /\ leases'[apiOut'.lease].ms = apiIn'.ms
               /\ ~leases'[apiOut'.lease].released
               /\ leases'[apiOut'.lease].context.key =
                      [NamespaceID |-> apiIn'.ms.NamespaceID,
                       WorkflowID  |-> apiIn'.ms.WorkflowId,
                       RunID       |-> apiIn'.ms.RunId]
      ]_vars

\* a lease made for one mutable state was passed back with another one
C18_Witness ==
    /\ apiOut # Idle
    /\ apiIn.existingLease # NoLease
    /\ leases[apiIn.existingLease].ms # apiIn.ms
    /\ apiOut.lease = apiIn.existingLease
    /\ Len(leases) = 1


ProbeIn(cs) == \E i \in 1..Len(cs) : cs[i] = "IsAdvancedVisibilityActivity"

\* C19 as stated: a run whose history predates "remove-std-vis" skips the
\* probe IsAdvancedVisibilityActivity, when it runs and when it is replayed.
C19_PreRevisionSkipsProbe ==
    (preRevision /\ dwe # "notcalled") =>
        /\ ~ProbeIn(calls)
        /\ nReplays > 0 => ~ProbeIn(replayCalls)

\* C19 amended: a run whose history predates "remove-std-vis" has no version
\* marker, GetVersion returns DefaultVersion for it and deleteWorkflowExecutions
\* issues the probe, first of its commands, when it runs and in every replay;
\* a run started after the revision records the marker 0 and skips the probe,
\* when it runs and in every replay. The version returned is determined by
\* the marker, or its absence, in the history.
C19_ProbeIssuedExactlyForPreRevisionRuns ==
    dwe # "notcalled" =>
        /\ marker = (IF preRevision THEN Unset ELSE 0)
        /\ v = (IF marker = Unset THEN DefaultVersion ELSE marker)
        /\ ProbeIn(calls) <=> preRevision
        /\ ProbeIn(calls) => calls[2] = "IsAdvancedVisibilityActivity"
        /\ nReplays > 0 =>
               /\ replayV = (IF marker = Unset THEN DefaultVersion ELSE marker)
               /\ ProbeIn(replayCalls) <=> preRevision

\* a pre-revision run was replayed after the probe and the count query
C19_Witness ==
    /\ preRevision
    /\ nReplays > 0
    /\ replayV = DefaultVersion
    /\ replayCalls = <<"Sleep", "IsAdvancedVisibilityActivity",
                       "CountExecutionsAdvVisibilityActivity">>
    /\ calls = replayCalls

\* C20: every replay of a run gets from GetVersion the version its first
\* execution got, takes the same branch at the "remove-std-vis" gate (the
\* probe is issued in the replay iff it was issued originally), and so issues
\* the very commands the history records.
C20_ReplayTakesSameBranch ==
    [][ nReplays' # nReplays =>
          /\ replayV' = v
          /\ ProbeIn(replayCalls') <=> ProbeIn(calls)
          /\ replayCalls' = calls
      ]_vars

\* a run started after the revision was replayed twice, without the probe
C20_Witness ==
    /\ ~preRevision
    /\ nReplays = MaxReplays
    /\ marker = 0
    /\ replayV = 0
    /\ ~ProbeIn(replayCalls)
    /\ Len(replayCalls) >= 3


\* the accepted updates that satisfy P
AcceptedSuchThat(P(_)) == {i \in 1..Len(accepted) : P(accepted[i])}

FoundWaitOutstanding(u) == u.outstanding

FoundMainSequenceInWait(u) == u.beforeResume

\* C21 as stated: the number of waits armed is at most 1 plus the number of
\* updates accepted while a wait was outstanding.
C21_WaitsBoundedByUpdatesWhileOutstanding ==
    Len(timers) <= 1 + Cardinality(AcceptedSuchThat(FoundWaitOutstanding))

\* C21 amended: a wait is armed only with the positive delay value the main
\* sequence reads when it resumes, and the value is zeroed as the wait is
\* armed; a wait is re-armed only when an update with a positive duration was
\* accepted between the arming of the previous wait and the main sequence
\* resuming from it, be it while the timer was outstanding or after it fired;
\* so the number of waits armed is at most 1 plus the number of updates
\* accepted between the arming of a wait and the resumption from it.
C21_RearmedOnlyAfterPositiveUpdateBeforeResume ==
    [][ /\ Len(timers') > Len(timers) =>
               /\ Len(timers') = Len(timers) + 1
               /\ namespaceDeleteDelay > 0
               /\ timers'[Len(timers')].d = namespaceDeleteDelay
               /\ namespaceDeleteDelay' = 0
        /\ (Len(timers') > Len(timers) /\ Len(timers) > 0) =>
               /\ Len(accepted) > 0
               /\ accepted[Len(accepted)].beforeResume
               /\ accepted[Len(accepted)].wait = Len(timers)
               /\ accepted[Len(accepted)].d = namespaceDeleteDelay
        /\ (pc = "delayWait" /\ pc' = "deleteNs") => namespaceDeleteDelay = 0
        /\ Len(timers') <= 1 + Cardinality(
               {w \in 1..Len(timers') :
                   \E i \in 1..Len(accepted') :
                       /\ accepted'[i].beforeResume
                       /\ accepted'[i].wait = w
                       /\ accepted'[i].d > 0})
      ]_vars

\* a second wait was armed after an update cancelled the first one
C21_Witness ==
    /\ Len(timers) = 2
    /\ timers[1].state = "cancelled"
    /\ Len(accepted) = 1
    /\ accepted[1].outstanding
    /\ accepted[1].d > 0
    /\ timers[2].d = accepted[1].d


\* the caller cancelled the run while a delay wait was outstanding
CancelledDuringWait == rootCancel.requested /\ rootCancel.outstanding

\* C22: when the caller cancels the run while a delay wait is outstanding,
\* the wait ends cancelled and the run does not return from the delay step:
\* from the wait the main sequence goes on only to another pass of the loop
\* or, with no positive delay pending, to the DeleteNamespaceActivity call;
\* once the run has returned, that call was made and NamespaceDeleted and the
\* error are those its outcome gives.
C22_CancelDuringDelayStillReachesDeleteNamespace ==
    [][ CancelledDuringWait' =>
          /\ timers'[rootCancel'.wait].state = "cancelled"
          /\ pc' \in {"delayWait", "deleteNs", "returned"}
          /\ pc = "delayWait" => pc' \in {"delayWait", "deleteNs"}
          /\ (pc = "delayWait" /\ namespaceDeleteDelay = 0 /\ calls' # calls) =>
                 /\ pc' = "deleteNs"
                 /\ calls' = Append(calls, "DeleteNamespaceActivity")
          /\ pc' = "returned" =>
                 /\ Invoked("DeleteNamespaceActivity")'
                 /\ deleteNsOutcome' # Pending
                 /\ result'.NamespaceDeleted = (deleteNsOutcome' = Nil)
                 /\ err' = IF deleteNsOutcome' = Nil
                           THEN Nil
                           ELSE Wrap("ErrUnableToExecuteActivity",
                                     "DeleteNamespaceActivity", deleteNsOutcome')
      ]_vars

\* cancelled during the wait, the run went on to the DeleteNamespaceActivity
\* call and returned what that call, cancelled too, gave
C22_Witness ==
    /\ CancelledDuringWait
    /\ Len(timers) = 1
    /\ timers[1].state = "cancelled"
    /\ Len(accepted) = 0
    /\ Returned
    /\ calls[Len(calls)] = "DeleteNamespaceActivity"
    /\ deleteNsOutcome = CanceledError
    /\ ~result.NamespaceDeleted
    /\ err = Wrap("ErrUnableToExecuteActivity", "DeleteNamespaceActivity", CanceledError)


\* C23: when timers fire, calls return and finitely many updates are
\* accepted, every run returns, either with NamespaceDeleted set and no error
\* or with an error, and a run whose executions are deleted gets to the
\* DeleteNamespaceActivity call.
C23_RunTerminates ==
    /\ <>(Returned /\ (IsError(err) \/ result.NamespaceDeleted))
    /\ (dwe = "ok") ~> Invoked("DeleteNamespaceActivity")

\* a run that was held in the delay step by the updates it was sent, and
\* ended with the namespace deleted once they stopped
C23_Witness ==
    /\ Returned
    /\ err = Nil
    /\ result.NamespaceDeleted
    /\ nUpdates = MaxUpdates
    /\ Len(timers) = 1 + MaxUpdates

====
